---- MODULE Spec2Model ----
(***************************************************************************)
(* Model of the AMC analytics dashboard (src/js/app.js, the current       *)
(* definitions of the file: lines 955-3513).                               *)
(*                                                                         *)
(* Encodings                                                               *)
(*   - a date string "YYYY-MM-DD" / "YYYY-MM" is the sequence of its       *)
(*     zero-padded '-'-separated parts, <<y, m, d>> / <<y, m>>; the empty  *)
(*     sequence is the absent (or empty) string, which JavaScript treats   *)
(*     as falsy.  Lexical comparison of such strings is the lexicographic  *)
(*     comparison of the part sequences, a proper prefix first.            *)
(*   - a JavaScript number-valued field is a record [t, n]: Num(n), NaN    *)
(*     or Undefined (the field is absent).                                 *)
(*   - an instant is a number of hours since 2024-01-01T00:00Z.            *)
(*   - a customer name is a sequence of one-character strings.             *)
(*   - year 0 stands for the falsy year values null / NaN.                 *)
(***************************************************************************)
EXTENDS Integers, Sequences, FiniteSets, TLC

\* ------------------------------------------------------------------ bounds
MaxRecords == 2

MaxInFlight == 1

MaxCustomerLen == 2

\* ------------------------------------------------------- JavaScript values
Num(n) == [t |-> "num", n |-> n]

NaN == [t |-> "nan", n |-> 0]

Undefined == [t |-> "undef", n |-> 0]

IsNum(v) == v.t = "num"

\* a - b on JavaScript numbers: undefined converts to NaN, NaN propagates
JsSub(a, b) == IF IsNum(a) /\ IsNum(b) THEN Num(a.n - b.n) ELSE NaN

\* a + b on JavaScript numbers (a is always a number or NaN here)
JsAdd(a, b) == IF IsNum(a) /\ IsNum(b) THEN Num(a.n + b.n) ELSE NaN

\* (v || 0) for a number-valued field: undefined, NaN and 0 all give 0
OrZero(v) == IF IsNum(v) THEN v.n ELSE 0

NoYear == 0

NoDate == <<>>

\* ------------------------------------------------------------ calendar
IsLeap(y) == (y % 4 = 0 /\ y % 100 # 0) \/ y % 400 = 0

DaysInMonth(y, m) ==
    IF m = 2 THEN (IF IsLeap(y) THEN 29 ELSE 28)
    ELSE IF m \in {4, 6, 9, 11} THEN 30 ELSE 31

RECURSIVE DaysBeforeMonth(_, _)
DaysBeforeMonth(y, m) ==
    IF m <= 1 THEN 0 ELSE DaysBeforeMonth(y, m - 1) + DaysInMonth(y, m - 1)

RECURSIVE DaysBeforeYear(_)
DaysBeforeYear(y) ==
    IF y <= 2024 THEN 0
    ELSE DaysBeforeYear(y - 1) + (IF IsLeap(y - 1) THEN 366 ELSE 365)

\* calendar day number of the date y-m-d (2024-01-01 is day 0)
DayNum(y, m, d) == DaysBeforeYear(y) + DaysBeforeMonth(y, m) + (d - 1)

\* a date string the Date constructor accepts
ValidDateStr(s) ==
    /\ Len(s) \in {2, 3}
    /\ s[1] >= 2024
    /\ s[2] \in 1..12
    /\ Len(s) = 3 => s[3] \in 1..DaysInMonth(s[1], s[2])

\* new Date("YYYY-MM-DD") / new Date("YYYY-MM"): a date-only ISO string is
\* read as midnight UTC
DateFromIsoString(s) ==
    DayNum(s[1], s[2], IF Len(s) = 3 THEN s[3] ELSE 1) * 24

\* new Date(y, m - 1, 1): midnight of the first of the month in LOCAL time,
\* for a zone offset of tzHours hours east of UTC
DateFromLocalParts(y, m, tzHours) == DayNum(y, m, 1) * 24 - tzHours

\* new Date() followed by setHours(0, 0, 0, 0): local midnight of the local
\* calendar day
StartOfToday(todayDate, tzHours) ==
    DayNum(todayDate[1], todayDate[2], todayDate[3]) * 24 - tzHours

\* a.localeCompare(b) < 0 for the date strings of the snapshots
RECURSIVE LexLess(_, _)
LexLess(a, b) ==
    IF a = <<>> THEN b # <<>>
    ELSE IF b = <<>> THEN FALSE
    ELSE IF Head(a) # Head(b) THEN Head(a) < Head(b)
    ELSE LexLess(Tail(a), Tail(b))

\* ------------------------------------------------------------ snapshots
\* one row of a snapshot document (the fields the dashboard reads)
Item(id, ws, we, ms, mo, c, r) ==
    [id |-> id, week_start |-> ws, week_end |-> we, month_start |-> ms,
     month |-> mo, created |-> c, resolved |-> r]

\* the rows the served snapshot documents are made of: the week across the
\* year boundary, a week of the first quarter, the week starting on the
\* session's day, a week starting the day after (no week_end), and a month
\* whose created count is absent
RecordPool ==
    { Item(1, <<2024, 12, 30>>, <<2025, 1, 5>>, NoDate, NoDate, Num(4), Num(10)),
      Item(2, <<2025, 2, 3>>, <<2025, 2, 9>>, NoDate, NoDate, Num(2), Num(1)),
      Item(3, <<2025, 6, 9>>, <<2025, 6, 15>>, NoDate, NoDate, Num(3), Num(0)),
      Item(4, <<2025, 6, 10>>, NoDate, NoDate, NoDate, Num(5), Num(2)),
      Item(5, NoDate, NoDate, NoDate, <<2025, 4>>, Undefined, Num(3)) }

\* the data arrays a snapshot document can hold: rows of the pool, no row twice
Snapshots ==
    UNION { { rows \in [1..n -> RecordPool] :
                \A i, j \in 1..n : rows[i] = rows[j] => i = j } :
            n \in 0..MaxRecords }

\* the local calendar day of the session
TodayChoices == { <<2025, 6, 9>> }

\* the browser's zone offsets, hours east of UTC
TimeZones == { -5, 2 }

\* --------------------------------------------- filterAndRenderData, pure
\* item.week_start || item.month_start || item.month
DateStrOf(item) ==
    IF item.week_start # NoDate THEN item.week_start
    ELSE IF item.month_start # NoDate THEN item.month_start
    ELSE item.month

\* the year test of the first filter
YearMatches(item, year) ==
    IF item.week_start # NoDate
    THEN IF item.week_end # NoDate
         THEN ~(item.week_start[1] # year /\ item.week_end[1] # year)
         ELSE item.week_start[1] = year
    ELSE DateStrOf(item)[1] = year

\* itemDate <= today, false for an Invalid Date
NotAfterMutant(valid, itemDate, today) == TRUE

NotAfter(valid, itemDate, today) == valid /\ itemDate <= today

\* the future-date test of the first filter
NotInFuture(item, todayDate, tzHours) ==
    LET today == StartOfToday(todayDate, tzHours) IN
    IF item.week_start # NoDate
    THEN NotAfter(ValidDateStr(item.week_start),
                  DateFromIsoString(item.week_start), today)
    ELSE IF item.month_start # NoDate
    THEN NotAfter(ValidDateStr(item.month_start),
                  DateFromIsoString(item.month_start), today)
    ELSE IF item.month # NoDate
    THEN NotAfter(ValidDateStr(item.month),
                  DateFromLocalParts(item.month[1], item.month[2], tzHours),
                  today)
    ELSE FALSE

\* the callback of the first filter (year and future dates)
KeepByYear(item, year, todayDate, tzHours) ==
    IF DateStrOf(item) = NoDate THEN FALSE
    ELSE IF year # NoYear
    THEN YearMatches(item, year) /\ NotInFuture(item, todayDate, tzHours)
    ELSE NotInFuture(item, todayDate, tzHours)

\* parseInt(range.replace('Q', '')), 0 standing for NaN
ParseQuarter(range) ==
    CASE range = "Q1" -> 1
      [] range = "Q2" -> 2
      [] range = "Q3" -> 3
      [] range = "Q4" -> 4
      [] OTHER -> 0

Range(seq) == { seq[i] : i \in DOMAIN seq }

SelectedQuarters(ranges) ==
    { ParseQuarter(rg) : rg \in { x \in Range(ranges) : ParseQuarter(x) \in 1..4 } }

\* Math.ceil(month / 3)
QuarterOfMonthMutant(month) == month \div 3

QuarterOfMonth(month) == (month + 2) \div 3

\* the callback of the quarter filter
KeepByQuarter(item, year, quarters) ==
    LET dateStr == DateStrOf(item) IN
    IF dateStr = NoDate THEN FALSE
    ELSE IF year # NoYear /\ dateStr[1] # year
    THEN IF item.week_end # NoDate /\ item.week_end[1] = year
         THEN QuarterOfMonth(item.week_end[2]) \in quarters
         ELSE FALSE
    ELSE QuarterOfMonth(dateStr[2]) \in quarters

\* the two filter passes
FilterRecords(data, year, ranges, todayDate, tzHours) ==
    LET Keep1(item) == KeepByYear(item, year, todayDate, tzHours)
        byYear == SelectSeq(data, Keep1)
        quarters == SelectedQuarters(ranges)
        Keep2(item) == KeepByQuarter(item, year, quarters)
    IN IF Len(ranges) > 0 /\ "Annual" \notin Range(ranges) /\ quarters # {}
       THEN SelectSeq(byYear, Keep2)
       ELSE byYear

\* the sort comparator: dateA.localeCompare(dateB) < 0
ComesBeforeMutant(a, b) == LexLess(DateStrOf(b), DateStrOf(a))

ComesBefore(a, b) == LexLess(DateStrOf(a), DateStrOf(b))

\* Array.prototype.sort is stable: an element goes after the elements that
\* do not come after it
RECURSIVE InsertSorted(_, _)
InsertSorted(sorted, item) ==
    IF sorted = <<>> THEN <<item>>
    ELSE IF ComesBefore(item, Head(sorted)) THEN <<item>> \o sorted
    ELSE <<Head(sorted)>> \o InsertSorted(Tail(sorted), item)

RECURSIVE SortByDateMutant(_)
SortByDateMutant(seq) ==
    IF seq = <<>> THEN <<>>
    ELSE <<seq[Len(seq)]>> \o SortByDateMutant(SubSeq(seq, 1, Len(seq) - 1))

RECURSIVE SortByDate(_)
SortByDate(seq) ==
    IF seq = <<>> THEN <<>>
    ELSE InsertSorted(SortByDate(SubSeq(seq, 1, Len(seq) - 1)), seq[Len(seq)])

\* filtered, after filtered.sort(...)
FilterAndSort(data, year, ranges, todayDate, tzHours) ==
    SortByDate(FilterRecords(data, year, ranges, todayDate, tzHours))

\* const netChange = item.created - item.resolved
NetChange(item) == JsSub(item.created, item.resolved)

\* filtered.map(item => ({...item, cumulative})) with the running sum
RECURSIVE Cumulate(_, _)
Cumulate(seq, cumulative) ==
    IF seq = <<>> THEN <<>>
    ELSE LET c == JsAdd(cumulative, NetChange(Head(seq))) IN
         <<[item |-> Head(seq), cumulative |-> c]>> \o Cumulate(Tail(seq), c)

DataWithCumulative(filtered) == Cumulate(filtered, Num(0))

\* totalCreated += item.created || 0
RECURSIVE TotalCreatedMutant(_)
TotalCreatedMutant(seq) ==
    IF Len(seq) <= 1 THEN 0
    ELSE OrZero(Head(seq).created) + TotalCreatedMutant(Tail(seq))

RECURSIVE TotalCreated(_)
TotalCreated(seq) ==
    IF seq = <<>> THEN 0
    ELSE OrZero(Head(seq).created) + TotalCreated(Tail(seq))

\* totalResolved += item.resolved || 0
RECURSIVE TotalResolved(_)
TotalResolved(seq) ==
    IF seq = <<>> THEN 0
    ELSE OrZero(Head(seq).resolved) + TotalResolved(Tail(seq))

\* --------------------------------------------------------- customer names
CustAll == <<"a", "l", "l">>

CustOneAlbania == <<"o", "n", "e", "-", "a", "l", "b", "a", "n", "i", "a">>

CustRestOfWorld ==
    <<"r", "e", "s", "t", "-", "o", "f", "-", "w", "o", "r", "l", "d">>

\* "STL - Airtel Fixedline"
CustAirtel ==
    <<"S", "T", "L", " ", "-", " ", "A", "i", "r", "t", "e", "l", " ",
      "F", "i", "x", "e", "d", "l", "i", "n", "e">>

\* "O2_UK"
CustO2 == <<"O", "2", "_", "U", "K">>

\* the character class [a-zA-Z0-9_-]
SafeChars ==
    { "a", "b", "c", "d", "e", "f", "g", "h", "i", "j", "k", "l", "m",
      "n", "o", "p", "q", "r", "s", "t", "u", "v", "w", "x", "y", "z",
      "A", "B", "C", "D", "E", "F", "G", "H", "I", "J", "K", "L", "M",
      "N", "O", "P", "Q", "R", "S", "T", "U", "V", "W", "X", "Y", "Z",
      "0", "1", "2", "3", "4", "5", "6", "7", "8", "9", "_", "-" }

\* substring(0, 50)
FilenameMaxLen == 50

\* customer.replace(/[^a-zA-Z0-9_-]/g, '_')
ReplaceUnsafeMutant(str) == SelectSeq(str, LAMBDA ch : ch \in SafeChars)

ReplaceUnsafe(str) ==
    [i \in DOMAIN str |-> IF str[i] \in SafeChars THEN str[i] ELSE "_"]

\* str.substring(0, n)
Substring0Mutant(str, n) == str

Substring0(str, n) == SubSeq(str, 1, IF Len(str) < n THEN Len(str) ELSE n)

\* the customer part of the file name
SanitizeCustomer(customer) ==
    IF customer = CustAll THEN CustAll
    ELSE IF customer = CustOneAlbania THEN CustOneAlbania
    ELSE IF customer = CustRestOfWorld THEN CustRestOfWorld
    ELSE Substring0(ReplaceUnsafe(customer), FilenameMaxLen)

\* `${period}-${year}-${customer}.json`, kept as its three interpolated parts
GetDataFilename(filters) ==
    [period |-> filters.period, year |-> filters.year,
     customer |-> SanitizeCustomer(filters.customer)]

NoFile == [period |-> "", year |-> NoYear, customer |-> <<>>]

\* ------------------------------------------------------- filter state
Filters(p, y, rs, c) == [period |-> p, year |-> y, ranges |-> rs, customer |-> c]

\* the module-level initial value of currentFilters
InitialFilters == Filters("monthly", NoYear, <<"Annual">>, CustAll)

\* the parsed query string: present is params.toString() being non-empty; an
\* absent parameter is the empty string / empty list / year 0
Query(present, p, y, rs, c) ==
    [present |-> present, period |-> p, year |-> y, ranges |-> rs, customer |-> c]

NoQuery == Query(FALSE, "", NoYear, <<>>, <<>>)

\* the characters customer names are made of in the model
NameChars == { "a", " ", "&" }

\* a name of n characters with a blank at every seventh place
LongName(n) == [i \in 1..n |-> IF i % 7 = 0 THEN " " ELSE "x"]

CustomerNames ==
    UNION { [1..n -> NameChars] : n \in 1..MaxCustomerLen }
    \cup { LongName(n) : n \in (FilenameMaxLen - 1)..(FilenameMaxLen + 2) }
    \cup { CustAll, CustOneAlbania, CustRestOfWorld, CustAirtel, CustO2 }

\* the query strings that leave period and customer alone
RangeQueries ==
    { NoQuery } \cup
    { Query(TRUE, "", y, rs, <<>>) :
        y \in { NoYear, 2024 }, rs \in { <<>>, <<"Q1", "Q2">> } }

\* the query strings the page is opened with
Queries ==
    RangeQueries \cup
    { Query(TRUE, p, NoYear, <<>>, c) : p \in { "", "weekly" }, c \in CustomerNames }

\* the query strings over the range lists: no ranges key, one quarter, Annual
\* next to a quarter, a tag no button carries
FilterQueries ==
    { NoQuery, Query(TRUE, "", NoYear, <<>>, CustRestOfWorld) } \cup
    { Query(TRUE, p, y, rs, <<>>) :
        p \in { "", "weekly" }, y \in { NoYear, 2024 },
        rs \in { <<>>, <<"Q2">>, <<"Annual", "Q1">>, <<"x">> } }

\* the persisted blob: saved is localStorage.getItem(...) being non-null
Blob(saved, f) == [saved |-> saved, f |-> f, throws |-> FALSE]

\* a localStorage whose every call throws (private browsing): getItem gives
\* nothing and setItem stores nothing
ThrowingStorage == [saved |-> FALSE, f |-> InitialFilters, throws |-> TRUE]

NoBlob == Blob(FALSE, InitialFilters)

StoredBlobs ==
    { NoBlob, Blob(TRUE, Filters("weekly", 2024, <<"Q3">>, CustOneAlbania)) }

\* the blobs of the sessions before: none, a full one, the object {}, one with
\* Annual next to a quarter and no year
FilterBlobs ==
    StoredBlobs \cup
    { Blob(TRUE, Filters("", NoYear, <<>>, <<>>)),
      Blob(TRUE, Filters("weekly", NoYear, <<"Annual", "Q2">>, CustRestOfWorld)),
      ThrowingStorage }

LoadFiltersFromStorage(blob) ==
    Filters(IF blob.f.period # "" THEN blob.f.period ELSE "monthly",
            blob.f.year,
            IF Len(blob.f.ranges) > 0 THEN blob.f.ranges ELSE <<"Annual">>,
            IF blob.f.customer # <<>> THEN blob.f.customer ELSE CustAll)

GetUrlParamsMutant(query, blob) ==
    LET saved == IF blob.saved THEN LoadFiltersFromStorage(blob)
                 ELSE Filters("monthly", NoYear, <<"Annual">>, CustAll)
    IN Filters(IF query.period # "" THEN query.period ELSE saved.period,
               IF query.year # NoYear THEN query.year ELSE saved.year,
               IF query.ranges # <<>> THEN query.ranges ELSE saved.ranges,
               IF query.customer # <<>> THEN query.customer ELSE saved.customer)

GetUrlParams(query, blob) ==
    IF query.present
    THEN Filters(IF query.period # "" THEN query.period ELSE "monthly",
                 query.year,
                 IF query.ranges # <<>> THEN query.ranges ELSE <<"Annual">>,
                 IF query.customer # <<>> THEN query.customer ELSE CustAll)
    ELSE IF blob.saved THEN LoadFiltersFromStorage(blob)
    ELSE Filters("monthly", NoYear, <<"Annual">>, CustAll)

\* ------------------------------------------------ the query string, as text
\* the text of the period and range values of the model
WordChars(w) ==
    CASE w = "weekly" -> <<"w", "e", "e", "k", "l", "y">>
      [] w = "monthly" -> <<"m", "o", "n", "t", "h", "l", "y">>
      [] w = "Annual" -> <<"A", "n", "n", "u", "a", "l">>
      [] w = "Q1" -> <<"Q", "1">>
      [] w = "Q2" -> <<"Q", "2">>
      [] w = "Q3" -> <<"Q", "3">>
      [] w = "Q4" -> <<"Q", "4">>
      [] w = "x" -> <<"x">>
      [] OTHER -> <<>>

Words == { "weekly", "monthly", "Annual", "Q1", "Q2", "Q3", "Q4", "x" }

\* the value whose text is chars; the empty text is the empty string
WordOf(chars) ==
    IF \E w \in Words : WordChars(w) = chars
    THEN CHOOSE w \in Words : WordChars(w) = chars
    ELSE ""

Digits == <<"0", "1", "2", "3", "4", "5", "6", "7", "8", "9">>

\* year.toString() for a positive integer
RECURSIVE NumberToString(_)
NumberToString(n) ==
    IF n < 10 THEN <<Digits[n + 1]>>
    ELSE NumberToString(n \div 10) \o <<Digits[(n % 10) + 1]>>

DigitValue(ch) == (CHOOSE d \in 1..10 : Digits[d] = ch) - 1

\* parseInt(str): the leading digits, 0 standing for NaN when there is none
RECURSIVE ParseIntFrom(_, _)
ParseIntFrom(chars, acc) ==
    IF chars = <<>> \/ Head(chars) \notin Range(Digits) THEN acc
    ELSE ParseIntFrom(Tail(chars), acc * 10 + DigitValue(Head(chars)))

ParseInt(chars) == ParseIntFrom(chars, 0)

\* words.join(',')
RECURSIVE JoinWords(_)
JoinWords(ws) ==
    IF ws = <<>> THEN <<>>
    ELSE IF Len(ws) = 1 THEN WordChars(ws[1])
    ELSE WordChars(ws[1]) \o <<",">> \o JoinWords(Tail(ws))

\* str.split(sep)
RECURSIVE Split(_, _)
Split(chars, sep) ==
    IF \A i \in DOMAIN chars : chars[i] # sep THEN <<chars>>
    ELSE LET i == CHOOSE k \in DOMAIN chars :
                     chars[k] = sep /\ \A j \in 1..(k - 1) : chars[j] # sep
         IN <<SubSeq(chars, 1, i - 1)>>
            \o Split(SubSeq(chars, i + 1, Len(chars)), sep)

\* the two hexadecimal digits of the characters URLSearchParams escapes
PercentCode(ch) ==
    CASE ch = "&" -> <<"2", "6">>
      [] ch = "," -> <<"2", "C">>
      [] ch = "=" -> <<"3", "D">>
      [] ch = "+" -> <<"2", "B">>
      [] ch = "%" -> <<"2", "5">>
      [] OTHER -> <<"3", "F">>

Escaped == { "&", ",", "=", "+", "%", "?" }

\* the application/x-www-form-urlencoded serializer, one character
EncodeCharMutant(ch) == <<ch>>

EncodeChar(ch) ==
    IF ch \in SafeChars THEN <<ch>>
    ELSE IF ch = " " THEN <<"+">>
    ELSE <<"%">> \o PercentCode(ch)

RECURSIVE Encode(_)
Encode(chars) ==
    IF chars = <<>> THEN <<>> ELSE EncodeChar(Head(chars)) \o Encode(Tail(chars))

\* the parser's decoding: '+' is a blank, %XX the character of that code
RECURSIVE Decode(_)
Decode(chars) ==
    IF chars = <<>> THEN <<>>
    ELSE IF Head(chars) = "+" THEN <<" ">> \o Decode(Tail(chars))
    ELSE IF Head(chars) = "%" /\ Len(chars) >= 3
            /\ \E ch \in Escaped : PercentCode(ch) = SubSeq(chars, 2, 3)
    THEN <<CHOOSE ch \in Escaped : PercentCode(ch) = SubSeq(chars, 2, 3)>>
         \o Decode(SubSeq(chars, 4, Len(chars)))
    ELSE <<Head(chars)>> \o Decode(Tail(chars))

KeyPeriod == <<"p", "e", "r", "i", "o", "d">>

KeyYear == <<"y", "e", "a", "r">>

KeyRanges == <<"r", "a", "n", "g", "e", "s">>

KeyCustomer == <<"c", "u", "s", "t", "o", "m", "e", "r">>

\* URLSearchParams.toString(): name=value pairs joined by '&'
RECURSIVE SerializePairs(_)
SerializePairs(pairs) ==
    IF pairs = <<>> THEN <<>>
    ELSE LET one == Encode(pairs[1].name) \o <<"=">> \o Encode(pairs[1].value)
         IN IF Len(pairs) = 1 THEN one
            ELSE one \o <<"&">> \o SerializePairs(Tail(pairs))

\* buildUrl(): the text after the '?'
BuildUrl(f) ==
    SerializePairs(
        <<[name |-> KeyPeriod, value |-> WordChars(f.period)]>>
        \o (IF f.year # NoYear
            THEN <<[name |-> KeyYear, value |-> NumberToString(f.year)]>>
            ELSE <<>>)
        \o <<[name |-> KeyRanges, value |-> JoinWords(f.ranges)],
             [name |-> KeyCustomer, value |-> f.customer]>>)

\* one name=value piece of a query string
ParsePair(piece) ==
    LET parts == Split(piece, "=") IN
    [name |-> Decode(parts[1]),
     value |-> IF Len(parts) = 1 THEN <<>>
               ELSE Decode(SubSeq(piece, Len(parts[1]) + 2, Len(piece)))]

\* new URLSearchParams(search): the pairs of the non-empty pieces
SearchParams(search) ==
    LET pieces == SelectSeq(Split(search, "&"), LAMBDA piece : piece # <<>>)
    IN [i \in DOMAIN pieces |-> ParsePair(pieces[i])]

\* params.get(name), the empty text when there is no such parameter
GetParam(params, name) ==
    IF \E i \in DOMAIN params : params[i].name = name
    THEN params[CHOOSE i \in DOMAIN params :
                   params[i].name = name
                   /\ \A j \in 1..(i - 1) : params[j].name # name].value
    ELSE <<>>

\* what getUrlParams() reads from window.location.search
QueryOfSearch(search) ==
    LET params == SearchParams(search)
        year == GetParam(params, KeyYear)
        ranges == GetParam(params, KeyRanges)
        tags == Split(ranges, ",")
    IN Query(Len(params) > 0,
             WordOf(GetParam(params, KeyPeriod)),
             IF year # <<>> THEN ParseInt(year) ELSE NoYear,
             IF ranges # <<>> THEN [i \in DOMAIN tags |-> WordOf(tags[i])]
             ELSE <<>>,
             GetParam(params, KeyCustomer))

\* metadata documents
MetadataDocs ==
    { [years |-> <<2024, 2025>>, customers |-> <<CustAirtel>>],
      [years |-> <<>>, customers |-> <<CustAirtel>>] }

NoMetadata == [years |-> <<>>, customers |-> <<>>]

Periods == { "weekly", "monthly" }

RangeButtons == { "Q1", "Q2", "Q3", "Q4", "Annual" }

\* the options of the customer dropdown
CustomerOptions(md) == { CustOneAlbania, CustRestOfWorld } \cup Range(md.customers)

\* ------------------------------------------------------------------ state
VARIABLES
    todayDate,          \* the local calendar day (new Date())
    tzHours,            \* the browser's zone offset
    serverData,         \* the data array of the served snapshot documents
    storage,            \* localStorage['amc-dashboard-filters']
    phase,              \* position of init(): boot, metadata, ready, failed
    metadata,
    currentFilters,
    currentData,        \* [loaded |-> FALSE] is null
    inFlight,           \* the loadData calls awaiting their fetch
    lastFile,           \* the file name of the last fetch issued by loadData
    settled,            \* how the fetch loadData handled last had ended
    view,               \* display of #loading, #charts-container, #error
    stats,              \* the stat cards
    filtered,           \* filtered, after the sort, of the last run
    dataWithCumulative, \* the series last handed to renderCharts
    chartsCleared,      \* the last run cleared the charts instead
    fresh,              \* the last run used the current data, year and ranges
    renderTimers,       \* the series of the setTimeout(renderCharts) pending
    shown,              \* the series the two charts display
    jiraLinks,          \* the jira_links of the served records, by record id
    now,                \* Date.now(), in minutes
    loginCache,         \* localStorage: jira-logged-in, jira-login-check-time
    skipLoginPrompt,    \* localStorage: skip-login-prompt is 'true'
    probes,             \* the checkJiraLoginStatus calls awaiting their fetch
    checks,             \* the number of links handed over by the chart so far
    pendingJiraLink,
    modalShown,         \* #jira-login-modal is displayed
    opened,             \* the links window.open was called with, in order
    clickHandled,       \* the flag of the chart's click handler
    openTimers,         \* the links of the setTimeout(window.open) pending
    toastShown,         \* #jira-toast is displayed
    loginTimers,        \* the timers of the login button pending
    swCache,            \* the service worker's cache entry of the requested URL
    swFetches,          \* the service worker's fetches awaiting the network
    swAnswer,           \* the response the service worker gave last
    activeTab,          \* the tab whose content is displayed
    teamListeners,      \* the click listeners on each team button container
    teamFilters,
    teamClick           \* what the last click on a team button set off

vars ==
    <<todayDate, tzHours, serverData, storage, phase, metadata, currentFilters,
      currentData, inFlight, lastFile, settled, view, stats, filtered,
      dataWithCumulative, chartsCleared, fresh, renderTimers, shown,
      jiraLinks, now, loginCache, skipLoginPrompt, probes, checks,
      pendingJiraLink, modalShown, opened, clickHandled, openTimers, toastShown,
      loginTimers, swCache, swFetches, swAnswer, activeTab, teamListeners,
      teamFilters, teamClick>>

\* the team-performance tab
team == <<activeTab, teamListeners, teamFilters, teamClick>>

\* the service worker, which runs beside the page
worker == <<swCache, swFetches, swAnswer>>

\* the dashboard proper and what surrounds it
dashboard ==
    <<todayDate, tzHours, serverData, storage, phase, metadata, currentFilters,
      currentData, inFlight, lastFile, settled, view, stats, filtered,
      dataWithCumulative, chartsCleared, fresh, renderTimers, shown, worker,
      team>>

\* the Jira links of the chart: the click handler, the login check, the modal
jira ==
    <<jiraLinks, now, loginCache, skipLoginPrompt, probes, checks,
      pendingJiraLink, modalShown, opened, clickHandled, openTimers, toastShown,
      loginTimers>>

\* the charts: the pending renders and what is displayed
charts == <<renderTimers, shown>>

\* what surrounds the first tab: the day, the zone, the server, the service
\* worker, the chart's links, the team-performance tab
env == <<todayDate, tzHours, serverData, worker, jira, team>>

NullData == [loaded |-> FALSE, rows |-> <<>>]

Loaded(rows) == [loaded |-> TRUE, rows |-> rows]

ShowLoading == [loading |-> TRUE, charts |-> FALSE, error |-> FALSE]

HideLoading(v) == [v EXCEPT !.loading = FALSE, !.charts = TRUE]

ShowError == [loading |-> FALSE, charts |-> FALSE, error |-> TRUE]

\* updateStatsCards(created, resolved): textContent = value || 0
UpdateStatsCards(created, resolved) == [created |-> created, resolved |-> resolved]

\* --------------------------------------------------------- service worker
\* a cached response: its sw-cached-time header, the empty text when it has
\* none
CachedResponse(time) == [found |-> TRUE, time |-> time]

\* cache.match() found nothing
NoCachedResponse == [found |-> FALSE, time |-> <<>>]

\* what the cache holds when the worker starts: nothing, a response of minute
\* 1, a response without the header
WorkerCaches ==
    { NoCachedResponse, CachedResponse(<<"1">>), CachedResponse(<<>>) }

\* the answer to a fetch event: from is cache, network or error (a rejected
\* promise); at is the minute of the answer, failed tells that the network
\* fetch had been rejected
Answer(from, time, at, failed) ==
    [from |-> from, time |-> time, at |-> at, failed |-> failed]

NoAnswer == Answer("", <<>>, 0, FALSE)

\* at most this many fetch events await the network
MaxFetches == 1

WorkerStart(entries) ==
    /\ swCache \in entries
    /\ swFetches = <<>>
    /\ swAnswer = NoAnswer

\* ------------------------------------------------- team-performance tab
TeamFilters(year, range) == [year |-> year, range |-> range]

\* a click on a team button: the listeners its container had, the year the
\* handler left, the handler bodies that ran, the fetches they issued
TeamClick(listeners, year, runs, fetches) ==
    [listeners |-> listeners, year |-> year, runs |-> runs, fetches |-> fetches]

\* no team button was clicked yet
NoTeamClick == TeamClick(-1, NoYear, 0, 0)

TeamRanges == { "Q1", "Q2", "Q3", "Q4" }

\* the team tab is activated at most this many times with the metadata loaded
MaxActivations == 2

TeamStart ==
    /\ activeTab = "created-resolved"
    /\ teamListeners = 0
    /\ teamFilters = TeamFilters(NoYear, "Q4")
    /\ teamClick = NoTeamClick

\* ------------------------------------------------------------- Jira links
\* a link is the JQL search of a record's created or resolved tickets; the
\* generator writes the key NONE when there is no ticket
Link(keys, id, series) == [jql |-> keys, id |-> id, series |-> series]

\* null, undefined or the empty string
NoLink == Link("", 0, "")

\* link.indexOf('key = "NONE"') === -1 is false
ContainsNoneKey(link) == link.jql = "NONE"

JiraLinks(c, r) == [present |-> TRUE, created |-> c, resolved |-> r]

\* a record without jira_links
NoJiraLinks == [present |-> FALSE, created |-> NoLink, resolved |-> NoLink]

\* the jira_links of the records 1 and 2 of the served snapshot
LinkDocs ==
    { <<JiraLinks(Link("keys", 1, "created"), Link("NONE", 1, "resolved")),
        JiraLinks(NoLink, Link("keys", 2, "resolved"))>>,
      <<NoJiraLinks,
        JiraLinks(Link("keys", 2, "created"), Link("keys", 2, "resolved"))>> }

\* the two keys of the cached login verdict; the empty text is null
LoginCache(status, time) == [status |-> status, time |-> time]

NoCache == LoginCache("", <<>>)

\* what earlier sessions left in localStorage: nothing, a verdict of minute 1,
\* a verdict whose time is not a number
LoginCaches ==
    { NoCache, LoginCache("true", <<"1">>), LoginCache("true", <<"x">>) }

\* the clock of the model stops here
MaxClock == 6

\* at most this many links are handed over by the chart
MaxChecks == 2

\* the Jira state when the script starts
JiraStart(docs, caches) ==
    /\ jiraLinks \in docs
    /\ now = 1
    /\ loginCache \in caches
    /\ skipLoginPrompt = FALSE
    /\ probes = <<>>
    /\ checks = 0
    /\ pendingJiraLink = NoLink
    /\ modalShown = FALSE
    /\ opened = <<>>
    /\ clickHandled = FALSE
    /\ openTimers = <<>>
    /\ toastShown = FALSE
    /\ loginTimers = 0

\* the state of the dashboard when the script starts, for the snapshots and
\* stored blobs given
DashboardStart(snapshots, blobs, zones) ==
    /\ todayDate \in TodayChoices
    /\ tzHours \in zones
    /\ serverData \in snapshots
    /\ storage \in blobs
    /\ phase = "boot"
    /\ metadata = NoMetadata
    /\ currentFilters = InitialFilters
    /\ currentData = NullData
    /\ inFlight = <<>>
    /\ lastFile = NoFile
    /\ settled = "none"
    /\ view = [loading |-> FALSE, charts |-> FALSE, error |-> FALSE]
    /\ stats = UpdateStatsCards(0, 0)
    /\ filtered = <<>>
    /\ dataWithCumulative = <<>>
    /\ chartsCleared = FALSE
    /\ fresh = FALSE
    /\ renderTimers = <<>>
    /\ shown = <<>>

\* the state when the script starts, the chart's links left alone
InitWith(snapshots, blobs, zones) ==
    /\ DashboardStart(snapshots, blobs, zones)
    /\ JiraStart({ <<NoJiraLinks, NoJiraLinks>> }, { NoCache })
    /\ WorkerStart({ NoCachedResponse })
    /\ TeamStart

\* at most this many deferred renders are pending at a time
MaxTimers == 1

\* createdResolvedChart.clear() and cumulativeChart.clear(); a pending render
\* stays pending
ClearCharts ==
    /\ shown' = <<>>
    /\ UNCHANGED renderTimers

\* renderCharts(data): returns before it touches the charts when data is empty
RenderChartsMutant(onDisplay, data) == data

RenderCharts(onDisplay, data) == IF Len(data) = 0 THEN onDisplay ELSE data

\* filterAndRenderData() on the data and the filters given; init() created
\* both charts before the first call, so the render is deferred by a timer
FilterAndRenderData(data, filters) ==
    IF ~data.loaded \/ Len(data.rows) = 0
    THEN /\ stats' = UpdateStatsCards(0, 0)
         /\ chartsCleared' = TRUE
         /\ filtered' = <<>>
         /\ dataWithCumulative' = <<>>
         /\ fresh' = TRUE
         /\ ClearCharts
    ELSE LET out == FilterAndSort(data.rows, filters.year, filters.ranges,
                                  todayDate, tzHours) IN
         /\ Len(renderTimers) < MaxTimers
         /\ filtered' = out
         /\ dataWithCumulative' = DataWithCumulative(out)
         /\ stats' = UpdateStatsCards(TotalCreated(out), TotalResolved(out))
         /\ chartsCleared' = FALSE
         /\ fresh' = TRUE
         /\ renderTimers' = Append(renderTimers, DataWithCumulative(out))
         /\ UNCHANGED shown

\* the timer of filterAndRenderData() fires: renderCharts(dataWithCumulative)
\* with the series of the run that set the timer
RenderTimerFires ==
    /\ renderTimers # <<>>
    /\ shown' = RenderCharts(shown, Head(renderTimers))
    /\ renderTimers' = Tail(renderTimers)
    /\ UNCHANGED <<env, storage, phase, metadata, currentFilters, currentData,
                   inFlight, lastFile, settled, view, stats, filtered,
                   dataWithCumulative, chartsCleared, fresh>>

\* no render is pending
Quiet == renderTimers = <<>>

\* the synchronous part of loadData(): showLoading, the file name, the fetch
StartLoad(filters, fromInit) ==
    /\ view' = ShowLoading
    /\ lastFile' = GetDataFilename(filters)
    /\ inFlight' = Append(inFlight, [fromInit |-> fromInit,
                                     file |-> GetDataFilename(filters)])

\* the script runs: init() up to the metadata fetch
DomReady ==
    /\ phase = "boot"
    /\ phase' = "metadata"
    /\ view' = ShowLoading
    /\ UNCHANGED <<env, storage, metadata, currentFilters, currentData, inFlight,
                   lastFile, settled, stats, filtered, dataWithCumulative,
                   chartsCleared, fresh, charts>>

LastYear(md) == IF Len(md.years) > 0 THEN md.years[Len(md.years)] ELSE NoYear

\* init() after the metadata document arrived, up to the snapshot fetch
MetadataOk(md, query) ==
    /\ phase = "metadata"
    /\ phase' = "ready"
    /\ metadata' = md
    /\ LET urlParams == GetUrlParams(query, storage)
           f == Filters(urlParams.period,
                        IF urlParams.year # NoYear THEN urlParams.year
                        ELSE LastYear(md),
                        urlParams.ranges, urlParams.customer)
       IN /\ currentFilters' = f
          /\ StartLoad(f, TRUE)
    /\ fresh' = FALSE
    /\ UNCHANGED <<env, storage, currentData, settled, stats, filtered,
                   dataWithCumulative, chartsCleared, charts>>

\* init() when the metadata fetch fails or answers a non-2xx status
MetadataFail ==
    /\ phase = "metadata"
    /\ phase' = "failed"
    /\ view' = ShowError
    /\ UNCHANGED <<env, storage, metadata, currentFilters, currentData, inFlight,
                   lastFile, settled, stats, filtered, dataWithCumulative,
                   chartsCleared, fresh, charts>>

RemoveAt(seq, i) == SubSeq(seq, 1, i - 1) \o SubSeq(seq, i + 1, Len(seq))

\* how a fetch of a snapshot file ends: the fetch is rejected, the status
\* is not 2xx, the body is not JSON (or is the JSON null), the document has no
\* data field, the document has a data array
FailureKinds == { "rejected", "status", "invalid" }

ResponseKinds == FailureKinds \cup { "nodata", "data" }

\* what loadData does with a response
ResponseBranchStrict(kind, rows) ==
    IF kind \in FailureKinds \/ kind = "nodata" THEN "error"
    ELSE IF Len(rows) = 0 THEN "empty"
    ELSE "render"

ResponseBranchMutant(kind, rows) ==
    IF kind \in FailureKinds \/ kind = "nodata" \/ Len(rows) = 0
    THEN "error" ELSE "render"

ResponseBranch(kind, rows) ==
    IF kind \in FailureKinds THEN "error"
    ELSE IF kind = "nodata" \/ Len(rows) = 0 THEN "empty"
    ELSE "render"

\* the catch block of loadData(): its second statement reads filename, a const
\* of the try block that is not in scope in the catch block, so the block
\* throws a ReferenceError before it reaches showError() and the promise of
\* loadData() is rejected.  init() awaits that promise inside its own try and
\* calls showError() in its catch; the click handlers drop the promise, and
\* the view stays as it is.
LoadDataCatch(v, fromInit) == IF fromInit THEN ShowError ELSE v

\* loadData() after its fetch settled; init() continues with hideLoading()
\* when the call was the one it awaits
LoadDataSettles(i, kind, rows) ==
    /\ i \in DOMAIN inFlight
    /\ inFlight' = RemoveAt(inFlight, i)
    /\ settled' = kind
    /\ LET branch == ResponseBranch(kind, rows)
           fromInit == inFlight[i].fromInit
       IN /\ view' = IF branch = "error" THEN LoadDataCatch(view, fromInit)
                     ELSE IF fromInit THEN HideLoading(HideLoading(view))
                     ELSE HideLoading(view)
          /\ CASE branch = "error" ->
                    UNCHANGED <<currentData, stats, filtered,
                                dataWithCumulative, chartsCleared, fresh,
                                charts>>
               [] branch = "empty" ->
                    /\ currentData' = Loaded(<<>>)
                    /\ stats' = UpdateStatsCards(0, 0)
                    /\ chartsCleared' = TRUE
                    /\ filtered' = <<>>
                    /\ dataWithCumulative' = <<>>
                    /\ fresh' = TRUE
                    /\ ClearCharts
               [] OTHER ->
                    /\ currentData' = Loaded(rows)
                    /\ FilterAndRenderData(Loaded(rows), currentFilters)
    /\ UNCHANGED <<env, storage, phase, metadata, currentFilters, lastFile>>

\* localStorage.setItem(..., JSON.stringify(currentFilters)) inside try
SaveFiltersToStorage(filters) ==
    storage' = IF storage.throws THEN storage ELSE Blob(TRUE, filters)

\* whether the exception of a throwing setItem leaves saveFiltersToStorage():
\* the catch block logs a warning and returns
SaveEscapesMutant(st) == st.throws

SaveEscapes(st) == FALSE

\* the listeners are attached by initFilters() and updateYearButtons(), which
\* init() calls after the metadata document arrived
ListenersAttachedMutant == phase # "boot"

ListenersAttached == phase = "ready"

\* a filter change that reloads: period button, year button, customer
\* dropdown; at most limit fetches are awaited at a time
ChangeAndLoadUpTo(limit, f) ==
    /\ ListenersAttached
    /\ Len(inFlight) < limit
    /\ currentFilters' = f
    /\ SaveFiltersToStorage(f)
    /\ IF SaveEscapes(storage)
       THEN /\ fresh' = FALSE
            /\ UNCHANGED <<inFlight, lastFile, view>>
       ELSE /\ StartLoad(f, FALSE)
            /\ fresh' = (fresh /\ f.year = currentFilters.year)
    /\ UNCHANGED <<env, phase, metadata, currentData, settled, stats, filtered,
                   dataWithCumulative, chartsCleared, charts>>

ChangeAndLoad(f) == ChangeAndLoadUpTo(MaxInFlight, f)

PeriodClick(p) == ChangeAndLoad([currentFilters EXCEPT !.period = p])

YearClick(y) == ChangeAndLoad([currentFilters EXCEPT !.year = y])

CustomerChange(c) == ChangeAndLoad([currentFilters EXCEPT !.customer = c])

\* a range button: radio behaviour, no reload
RangeClick(rg) ==
    /\ ListenersAttached
    /\ LET f == [currentFilters EXCEPT !.ranges = <<rg>>] IN
       /\ currentFilters' = f
       /\ SaveFiltersToStorage(f)
       /\ IF SaveEscapes(storage)
          THEN /\ fresh' = FALSE
               /\ UNCHANGED <<stats, filtered, dataWithCumulative, chartsCleared,
                              charts>>
          ELSE FilterAndRenderData(currentData, f)
    /\ UNCHANGED <<env, phase, metadata, currentData, inFlight, lastFile,
                   settled, view>>

\* --------------------------------------------- the chart's click handler
\* the params of an ECharts click event; dataIndex -1 is undefined. A click
\* on a series carries any index and either series name; one click on
\* another component, carrying the index of the first point, stands for the
\* clicks the handler drops by componentType
ClickParams ==
    { p \in [componentType : { "series", "title" },
             dataIndex : -1..MaxRecords,
             seriesName : { "Created", "Resolved" }] :
        p.componentType = "title"
            => p.dataIndex = 0 /\ p.seriesName = "Created" }

\* data[params.dataIndex] is an object
HasRecord(data, params) ==
    params.dataIndex >= 0 /\ params.dataIndex < Len(data)

\* the jira_links of the record at the index; JavaScript counts from 0
LinksAt(data, params) == jiraLinks[data[params.dataIndex + 1].item.id]

\* the link the handler picks: none when the event is not on a data point of
\* a series or the index has no record; reading created or resolved of a
\* record without jira_links throws a TypeError and the handler ends there
ClickedLinkMutant(data, params) ==
    IF params.componentType = "series" /\ HasRecord(data, params)
       /\ LinksAt(data, params).present
    THEN LinksAt(data, params).created
    ELSE NoLink

ClickedLink(data, params) ==
    IF params.componentType = "series" /\ HasRecord(data, params)
       /\ LinksAt(data, params).present
    THEN IF params.seriesName = "Created" THEN LinksAt(data, params).created
         ELSE LinksAt(data, params).resolved
    ELSE NoLink

\* link && link.indexOf('key = "NONE"') === -1
Dispatchable(link) == link # NoLink /\ ~ContainsNoneKey(link)

\* window.open(link, '_blank')
WindowOpen(link) == opened' = Append(opened, link)

\* a click on the chart that displays a series: the handler renderCharts
\* attached with that series.  The link is opened by a timer, after the toast
\* is shown; another timer resets the flag.
ChartClick(params) ==
    /\ phase = "ready" /\ Len(shown) > 0
    /\ checks < MaxChecks
    /\ ~clickHandled
    /\ Dispatchable(ClickedLink(shown, params))
    /\ clickHandled' = TRUE
    /\ toastShown' = TRUE
    /\ openTimers' = Append(openTimers, ClickedLink(shown, params))
    /\ checks' = checks + 1
    /\ UNCHANGED <<dashboard, jiraLinks, now, loginCache, skipLoginPrompt,
                   probes, pendingJiraLink, modalShown, opened, loginTimers>>

\* a click the handler ignores: the flag is set, or there is no link to open
ChartClickIgnored(params) ==
    /\ phase = "ready" /\ Len(shown) > 0
    /\ clickHandled \/ ~Dispatchable(ClickedLink(shown, params))
    /\ UNCHANGED vars

\* setTimeout(() => { clickHandled = false }, 300)
ClickResetFires ==
    /\ clickHandled
    /\ clickHandled' = FALSE
    /\ UNCHANGED <<dashboard, jiraLinks, now, loginCache, skipLoginPrompt,
                   probes, checks, pendingJiraLink, modalShown, opened,
                   openTimers, toastShown, loginTimers>>

\* setTimeout(() => { window.open(link, '_blank') }, 500)
OpenTimerFires ==
    /\ openTimers # <<>>
    /\ WindowOpen(Head(openTimers))
    /\ openTimers' = Tail(openTimers)
    /\ UNCHANGED <<dashboard, jiraLinks, now, loginCache, skipLoginPrompt,
                   probes, checks, pendingJiraLink, modalShown, clickHandled,
                   toastShown, loginTimers>>

\* the toast hides itself after four seconds
ToastHides ==
    /\ toastShown
    /\ toastShown' = FALSE
    /\ UNCHANGED <<dashboard, jiraLinks, now, loginCache, skipLoginPrompt,
                   probes, checks, pendingJiraLink, modalShown, opened,
                   clickHandled, openTimers, loginTimers>>

\* ------------------------------------------------------- the login check
\* the verdict is kept for five minutes
CacheMinutes == 5

\* cachedLoginStatus && cacheTime && (now - parseInt(cacheTime)) < 5 minutes;
\* the clock starts at 1, and 0 is the NaN of a time that is not a number
CacheIsFreshMutant(cache, t) ==
    /\ cache.status # "" /\ cache.time # <<>>
    /\ ParseInt(cache.time) # 0
    /\ t - ParseInt(cache.time) <= CacheMinutes

CacheIsFresh(cache, t) ==
    /\ cache.status # "" /\ cache.time # <<>>
    /\ ParseInt(cache.time) # 0
    /\ t - ParseInt(cache.time) < CacheMinutes

\* safeSetItem of the verdict and of Date.now().toString()
CacheVerdict(status) == loginCache' = LoginCache(status, NumberToString(now))

\* pendingJiraLink = jiraLink; showLoginModal()
AskToLoginMutant(link) ==
    /\ pendingJiraLink' = link
    /\ UNCHANGED modalShown

AskToLogin(link) ==
    /\ pendingJiraLink' = link
    /\ modalShown' = TRUE

\* how the probe of /rest/api/2/myself ends: status 200, another status, a
\* rejection (CORS, the network, the abort after two seconds)
ProbeOutcomes == { "ok", "status", "rejected" }

\* checkJiraLoginStatus(jiraLink) up to its return or its fetch
CheckJiraLoginStatus(link) ==
    IF CacheIsFresh(loginCache, now)
    THEN /\ IF loginCache.status = "true"
            THEN /\ WindowOpen(link)
                 /\ UNCHANGED <<pendingJiraLink, modalShown>>
            ELSE /\ AskToLogin(link)
                 /\ UNCHANGED opened
         /\ UNCHANGED <<probes, loginCache>>
    ELSE /\ probes' = Append(probes, [id |-> checks + 1, link |-> link])
         /\ UNCHANGED <<loginCache, opened, pendingJiraLink, modalShown>>

\* checkJiraLoginStatus after its fetch settled
ProbeSettles(k, outcome) ==
    /\ \E i \in DOMAIN probes :
          /\ probes[i].id = k
          /\ probes' = RemoveAt(probes, i)
          /\ IF outcome = "ok"
             THEN /\ CacheVerdict("true")
                  /\ WindowOpen(probes[i].link)
                  /\ UNCHANGED <<pendingJiraLink, modalShown>>
             ELSE /\ CacheVerdict("false")
                  /\ AskToLogin(probes[i].link)
                  /\ UNCHANGED opened
    /\ UNCHANGED <<dashboard, jiraLinks, now, skipLoginPrompt, checks,
                   clickHandled, openTimers, toastShown, loginTimers>>

\* the click handler of the version with the login prompt: the link goes to
\* window.open when the prompt is switched off, to the login check otherwise
ChartClickWithLoginCheck(params) ==
    /\ phase = "ready" /\ Len(shown) > 0
    /\ checks < MaxChecks
    /\ ~clickHandled
    /\ Dispatchable(ClickedLink(shown, params))
    /\ clickHandled' = TRUE
    /\ checks' = checks + 1
    /\ IF skipLoginPrompt
       THEN /\ WindowOpen(ClickedLink(shown, params))
            /\ UNCHANGED <<probes, loginCache, pendingJiraLink, modalShown>>
       ELSE CheckJiraLoginStatus(ClickedLink(shown, params))
    /\ UNCHANGED <<dashboard, jiraLinks, now, skipLoginPrompt, openTimers,
                   toastShown, loginTimers>>

\* hideLoginModal(): the close button, a click outside, the Escape key
HideLoginModalMutant ==
    /\ modalShown' = FALSE
    /\ UNCHANGED pendingJiraLink

HideLoginModal ==
    /\ modalShown' = FALSE
    /\ pendingJiraLink' = NoLink

CloseModal ==
    /\ HideLoginModal
    /\ UNCHANGED <<dashboard, jiraLinks, now, loginCache, skipLoginPrompt,
                   probes, checks, opened, clickHandled, openTimers, toastShown,
                   loginTimers>>

\* proceedToJira(): the Proceed button
ProceedToJira ==
    /\ IF pendingJiraLink # NoLink
       THEN /\ CacheVerdict("true")
            /\ WindowOpen(pendingJiraLink)
            /\ HideLoginModal
       ELSE UNCHANGED <<loginCache, opened, modalShown, pendingJiraLink>>
    /\ UNCHANGED <<dashboard, jiraLinks, now, skipLoginPrompt, probes, checks,
                   clickHandled, openTimers, toastShown, loginTimers>>

\* the checkbox "don't show again"
DontShowAgain(checked) ==
    /\ modalShown
    /\ skipLoginPrompt' = checked
    /\ UNCHANGED <<dashboard, jiraLinks, now, loginCache, probes, checks,
                   pendingJiraLink, modalShown, opened, clickHandled,
                   openTimers, toastShown, loginTimers>>

\* the login button of the modal: a timer of three seconds
LoginClick ==
    /\ modalShown
    /\ loginTimers = 0
    /\ loginTimers' = 1
    /\ UNCHANGED <<dashboard, jiraLinks, now, loginCache, skipLoginPrompt,
                   probes, checks, pendingJiraLink, modalShown, opened,
                   clickHandled, openTimers, toastShown>>

LoginTimerFires ==
    /\ loginTimers > 0
    /\ loginTimers' = loginTimers - 1
    /\ CacheVerdict("true")
    /\ UNCHANGED <<dashboard, jiraLinks, now, skipLoginPrompt, probes, checks,
                   pendingJiraLink, modalShown, opened, clickHandled,
                   openTimers, toastShown>>

\* a minute passes
Tick ==
    /\ now < MaxClock
    /\ now' = now + 1
    /\ UNCHANGED <<dashboard, jiraLinks, loginCache, skipLoginPrompt, probes,
                   checks, pendingJiraLink, modalShown, opened, clickHandled,
                   openTimers, toastShown, loginTimers>>

\* ------------------------------------------ the service worker's fetch
\* the cache is kept for five minutes
CACHE_DURATION == 5

\* cachedResponse && cachedTime && now - parseInt(cachedTime) < CACHE_DURATION;
\* the clock starts at 1, and 0 is the NaN of a time that is not a number
SwIsFreshMutant(cachedResponse, t) ==
    /\ cachedResponse.found /\ cachedResponse.time # <<>>
    /\ ParseInt(cachedResponse.time) # 0
    /\ t - ParseInt(cachedResponse.time) <= CACHE_DURATION

SwIsFresh(cachedResponse, t) ==
    /\ cachedResponse.found /\ cachedResponse.time # <<>>
    /\ ParseInt(cachedResponse.time) # 0
    /\ t - ParseInt(cachedResponse.time) < CACHE_DURATION

\* the fetch listener on a same-origin GET of a file that is not HTML, up to
\* its answer from the cache or its fetch
SwFetch ==
    /\ IF SwIsFresh(swCache, now)
       THEN /\ swAnswer' = Answer("cache", swCache.time, now, FALSE)
            /\ UNCHANGED swFetches
       ELSE /\ Len(swFetches) < MaxFetches
            /\ swFetches' = Append(swFetches, [at |-> now, cachedResponse |-> swCache])
            /\ UNCHANGED swAnswer
    /\ UNCHANGED <<todayDate, tzHours, serverData, storage, phase, metadata,
                   currentFilters, currentData, inFlight, lastFile, settled,
                   view, stats, filtered, dataWithCumulative, chartsCleared,
                   fresh, renderTimers, shown, jira, team, swCache>>

\* how the worker's fetch ends: status 200 of type basic, any other response,
\* a rejection
SwOutcomes == { "ok", "other", "rejected" }

\* the listener after its fetch settled: a 200 is put into the cache under the
\* time the event arrived; after a rejection the cached response found when
\* the event arrived is the answer, whatever its age
SwFetchSettles(i, outcome) ==
    /\ i \in DOMAIN swFetches
    /\ swFetches' = RemoveAt(swFetches, i)
    /\ LET req == swFetches[i] IN
       CASE outcome = "ok" ->
                /\ swCache' = CachedResponse(NumberToString(req.at))
                /\ swAnswer' = Answer("network", <<>>, now, FALSE)
         [] outcome = "other" ->
                /\ swAnswer' = Answer("network", <<>>, now, FALSE)
                /\ UNCHANGED swCache
         [] OTHER ->
                /\ swAnswer' = IF req.cachedResponse.found
                               THEN Answer("cache", req.cachedResponse.time, now, TRUE)
                               ELSE Answer("error", <<>>, now, TRUE)
                /\ UNCHANGED swCache
    /\ UNCHANGED <<todayDate, tzHours, serverData, storage, phase, metadata,
                   currentFilters, currentData, inFlight, lastFile, settled,
                   view, stats, filtered, dataWithCumulative, chartsCleared,
                   fresh, renderTimers, shown, jira, team>>

\* a request the listener leaves to the browser: not a GET, another origin,
\* an HTML file
SwPassThrough ==
    /\ swAnswer' = Answer("network", <<>>, now, FALSE)
    /\ UNCHANGED <<todayDate, tzHours, serverData, storage, phase, metadata,
                   currentFilters, currentData, inFlight, lastFile, settled,
                   view, stats, filtered, dataWithCumulative, chartsCleared,
                   fresh, renderTimers, shown, jira, team, swCache,
                   swFetches>>

\* ---------------------------------------------- the team-performance tab
Tabs == { "created-resolved", "team-performance" }

\* initTeamPerformanceTab(): returns at once without the metadata; otherwise
\* the year defaults to the last one and initTeamFilters() adds one more click
\* listener to each of the two button containers
InitTeamPerformanceTab ==
    IF phase # "ready"
    THEN UNCHANGED <<teamListeners, teamFilters>>
    ELSE /\ teamListeners < MaxActivations
         /\ teamListeners' = teamListeners + 1
         /\ teamFilters' = [teamFilters EXCEPT
                               !.year = IF @ # NoYear THEN @ ELSE LastYear(metadata)]

\* a click on a tab button
TabClick(tab) ==
    /\ activeTab' = tab
    /\ IF tab = "team-performance" THEN InitTeamPerformanceTab
       ELSE UNCHANGED <<teamListeners, teamFilters>>
    /\ UNCHANGED <<todayDate, tzHours, serverData, storage, phase, metadata,
                   currentFilters, currentData, inFlight, lastFile, settled,
                   view, stats, filtered, dataWithCumulative, chartsCleared,
                   fresh, renderTimers, shown, worker, jira, teamClick>>

\* the listeners of a container that run their body for a click on one of its
\* buttons: the body starts with e.stopImmediatePropagation(), which keeps
\* the listeners added after it from being called
ListenersRunMutant(n) == n

ListenersRun(n) == IF n = 0 THEN 0 ELSE 1

\* loadTeamPerformanceData() fetches when year and range are set
TeamFetches(f) == IF f.year # NoYear /\ f.range # "" THEN 1 ELSE 0

\* a click on a button of a container of the displayed team tab, the handler
\* bodies it runs setting the filters to f
TeamButtonClick(f) ==
    /\ activeTab = "team-performance"
    /\ teamClick' = TeamClick(teamListeners, f.year, ListenersRun(teamListeners),
                              ListenersRun(teamListeners) * TeamFetches(f))
    /\ teamFilters' = IF ListenersRun(teamListeners) > 0 THEN f ELSE teamFilters
    /\ UNCHANGED <<todayDate, tzHours, serverData, storage, phase, metadata,
                   currentFilters, currentData, inFlight, lastFile, settled,
                   view, stats, filtered, dataWithCumulative, chartsCleared,
                   fresh, renderTimers, shown, worker, jira, activeTab,
                   teamListeners>>

\* a year button; updateTeamYearButtons() creates them from the metadata
TeamYearClick(y) ==
    /\ teamListeners > 0
    /\ TeamButtonClick([teamFilters EXCEPT !.year = y])

\* a range button; the four of them are part of the page
TeamRangeClick(rg) == TeamButtonClick([teamFilters EXCEPT !.range = rg])

\* no fetch is awaited
Idle == inFlight = <<>>

\* the user changes period, year and customer while no fetch is awaited
Next ==
    \/ RenderTimerFires
    \/ DomReady
    \/ \E md \in MetadataDocs, query \in Queries : MetadataOk(md, query)
    \/ MetadataFail
    \/ \E i \in 1..MaxInFlight : Quiet /\ LoadDataSettles(i, "status", <<>>)
    \/ \E i \in 1..MaxInFlight, rows \in { serverData, <<>> } :
           Quiet /\ LoadDataSettles(i, "data", rows)
    \/ \E p \in Periods : Quiet /\ Idle /\ PeriodClick(p)
    \/ \E i \in DOMAIN metadata.years :
           Quiet /\ Idle /\ YearClick(metadata.years[i])
    \/ \E c \in CustomerOptions(metadata) : Quiet /\ Idle /\ CustomerChange(c)
    \/ \E rg \in RangeButtons : Quiet /\ RangeClick(rg)

\* the snapshot of the scenario of the testable properties
ScenarioSnapshots ==
    { <<Item(2, <<2025, 2, 3>>, <<2025, 2, 9>>, NoDate, NoDate, Num(2), Num(1)),
        Item(1, <<2024, 12, 30>>, <<2025, 1, 5>>, NoDate, NoDate, Num(4), Num(10))>> }

\* the whole dashboard, over the customer names
Init == InitWith(ScenarioSnapshots, StoredBlobs, { 2 })

Spec == Init /\ [][Next]_vars

\* the dashboard over all snapshots, the user leaving period and customer
\* alone and changing the year while no fetch is awaited
PipelineInit == InitWith(Snapshots, { NoBlob }, TimeZones)

PipelineNext ==
    \/ RenderTimerFires
    \/ DomReady
    \/ \E md \in MetadataDocs, query \in RangeQueries : MetadataOk(md, query)
    \/ MetadataFail
    \/ \E i \in 1..MaxInFlight : Quiet /\ LoadDataSettles(i, "status", <<>>)
    \/ \E i \in 1..MaxInFlight, rows \in { serverData, <<>> } :
           Quiet /\ LoadDataSettles(i, "data", rows)
    \/ \E i \in DOMAIN metadata.years :
           Quiet /\ Idle /\ YearClick(metadata.years[i])
    \/ \E rg \in RangeButtons : Quiet /\ RangeClick(rg)

PipelineSpec == PipelineInit /\ [][PipelineNext]_vars

\* the filter state: every query string over the range lists and every blob,
\* the user clicking period, year and range buttons, also while fetches are
\* awaited; the render a handler deferred by 200 ms runs before the next event
FilterInit == InitWith(ScenarioSnapshots, FilterBlobs, { 2 })

FilterNext ==
    \/ RenderTimerFires
    \/ DomReady
    \/ \E md \in MetadataDocs, query \in FilterQueries : MetadataOk(md, query)
    \/ MetadataFail
    \/ \E i \in 1..MaxInFlight : Quiet /\ LoadDataSettles(i, "status", <<>>)
    \/ \E i \in 1..MaxInFlight, rows \in { serverData, <<>> } :
           Quiet /\ LoadDataSettles(i, "data", rows)
    \/ \E p \in Periods : Quiet /\ PeriodClick(p)
    \/ \E i \in DOMAIN metadata.years : Quiet /\ YearClick(metadata.years[i])
    \/ \E rg \in RangeButtons : Quiet /\ RangeClick(rg)

FilterSpec == FilterInit /\ [][FilterNext]_vars

\* at most this many fetches are awaited at a time in the loading scenarios
MaxRacing == 2

\* loading: every way a fetch can end, a new load started while another is
\* awaited, over the filters of a fresh session; the render a handler deferred
\* by 200 ms runs before the next event
LoadInit == InitWith(ScenarioSnapshots, { NoBlob }, { 2 })

LoadNext ==
    \/ RenderTimerFires
    \/ DomReady
    \/ \E md \in { d \in MetadataDocs : d.years # <<>> } : MetadataOk(md, NoQuery)
    \/ MetadataFail
    \/ \E i \in 1..MaxRacing, kind \in FailureKinds \cup { "nodata" } :
           Quiet /\ LoadDataSettles(i, kind, <<>>)
    \/ \E i \in 1..MaxRacing, rows \in { serverData, <<>> } :
           Quiet /\ LoadDataSettles(i, "data", rows)
    \/ \E p \in Periods :
           /\ Quiet
           /\ ChangeAndLoadUpTo(MaxRacing, [currentFilters EXCEPT !.period = p])
    \/ \E i \in DOMAIN metadata.years :
           /\ Quiet
           /\ ChangeAndLoadUpTo(MaxRacing,
                                [currentFilters EXCEPT !.year = metadata.years[i]])
    \/ \E c \in Range(metadata.customers) :
           /\ Quiet
           /\ ChangeAndLoadUpTo(MaxRacing,
                                [currentFilters EXCEPT !.customer = c])

LoadSpec == LoadInit /\ [][LoadNext]_vars

\* init() on the scenario's snapshot, up to the first render
Boot ==
    \/ DomReady
    \/ MetadataOk([years |-> <<2024, 2025>>, customers |-> <<CustAirtel>>],
                  NoQuery)
    \/ LoadDataSettles(1, "data", serverData)
    \/ RenderTimerFires

\* the chart's click handler: the dashboard renders the scenario's snapshot,
\* the user picks a range and clicks on the chart
ClickInit ==
    /\ DashboardStart(ScenarioSnapshots, { NoBlob }, { 2 })
    /\ JiraStart(LinkDocs, { NoCache })
    /\ WorkerStart({ NoCachedResponse })
    /\ TeamStart

ClickNext ==
    \/ Boot
    \/ \E rg \in { "Annual", "Q1" } : Quiet /\ RangeClick(rg)
    \/ \E i \in DOMAIN metadata.years :
           Idle /\ Quiet /\ YearClick(metadata.years[i])
    \/ \E params \in ClickParams : ChartClick(params)
    \/ \E params \in ClickParams : ChartClickIgnored(params)
    \/ ClickResetFires
    \/ OpenTimerFires
    \/ ToastHides

ClickSpec == ClickInit /\ [][ClickNext]_vars

\* the login check: the links come from the click handler of the version with
\* the login prompt, minutes pass, the user answers the modal
JiraInit ==
    /\ DashboardStart(ScenarioSnapshots, { NoBlob }, { 2 })
    /\ JiraStart({ <<JiraLinks(Link("keys", 1, "created"), NoLink),
                     JiraLinks(NoLink, Link("keys", 2, "resolved"))>> },
                 LoginCaches)
    /\ WorkerStart({ NoCachedResponse })
    /\ TeamStart

JiraNext ==
    \/ Boot
    \/ \E params \in ClickParams : ChartClickWithLoginCheck(params)
    \/ ClickResetFires
    \/ \E k \in 1..MaxChecks, outcome \in ProbeOutcomes : ProbeSettles(k, outcome)
    \/ CloseModal
    \/ ProceedToJira
    \/ \E checked \in BOOLEAN : DontShowAgain(checked)
    \/ LoginClick
    \/ LoginTimerFires
    \/ Tick

JiraSpec == JiraInit /\ [][JiraNext]_vars

\* the fetch of the probe settles: the handler aborts it after two seconds
JiraLiveSpec ==
    /\ JiraSpec
    /\ \A k \in 1..MaxChecks :
          WF_vars(\E outcome \in ProbeOutcomes : ProbeSettles(k, outcome))

\* the service worker: fetch events as minutes pass
WorkerInit ==
    /\ DashboardStart(ScenarioSnapshots, { NoBlob }, { 2 })
    /\ JiraStart({ <<NoJiraLinks, NoJiraLinks>> }, { NoCache })
    /\ WorkerStart(WorkerCaches)
    /\ TeamStart

WorkerNext ==
    \/ SwFetch
    \/ \E i \in 1..MaxFetches, outcome \in SwOutcomes : SwFetchSettles(i, outcome)
    \/ SwPassThrough
    \/ Tick

WorkerSpec == WorkerInit /\ [][WorkerNext]_vars

\* the team-performance tab: the tabs are set up before init() runs
TeamInit == InitWith(ScenarioSnapshots, { NoBlob }, { 2 })

TeamNext ==
    \/ DomReady
    \/ \E md \in MetadataDocs : MetadataOk(md, NoQuery)
    \/ MetadataFail
    \/ LoadDataSettles(1, "data", serverData)
    \/ RenderTimerFires
    \/ \E tab \in Tabs : TabClick(tab)
    \/ \E i \in DOMAIN metadata.years : TeamYearClick(metadata.years[i])
    \/ \E rg \in TeamRanges : TeamRangeClick(rg)

TeamSpec == TeamInit /\ [][TeamNext]_vars

\* ------------------------------------------------------------ properties
Rows == currentData.rows

Year == currentFilters.year

Ranges == currentFilters.ranges

IdsOf(seq) == [i \in DOMAIN seq |-> seq[i].id]

\* the value of cumulative before row i of the series
CumulativeBefore(series, i) == IF i = 1 THEN Num(0) ELSE series[i - 1].cumulative

\* C1: in the series handed to the charts, the first cumulative value is
\* created - resolved of the first row and every later step of the cumulative
\* series is created - resolved of its row.
CumulativeIsRunningSum ==
    \A i \in DOMAIN dataWithCumulative :
        /\ dataWithCumulative[i].cumulative.t # "undef"
        /\ JsSub(dataWithCumulative[i].cumulative,
                 CumulativeBefore(dataWithCumulative, i))
             = JsSub(dataWithCumulative[i].item.created,
                     dataWithCumulative[i].item.resolved)

\* the months of a quarter tag
MonthsOfQuarter(tag) ==
    CASE tag = "Q1" -> 1..3
      [] tag = "Q2" -> 4..6
      [] tag = "Q3" -> 7..9
      [] tag = "Q4" -> 10..12
      [] OTHER -> {}

\* the date that decides the quarter of a row: its period start, or its
\* period end when the start lies in another year than the selected one
EffectiveDate(item, year) ==
    IF DateStrOf(item)[1] # year THEN item.week_end ELSE DateStrOf(item)

\* C2: with a year selected and ranges non-empty and without "Annual", every
\* row the filter keeps has its effective year equal to the selected year and
\* its effective month inside one of the selected quarters.
KeptRowsAreInSelectedQuarters ==
    (fresh /\ Year # NoYear /\ Len(Ranges) > 0 /\ "Annual" \notin Range(Ranges))
    => \A i \in DOMAIN filtered :
          LET eff == EffectiveDate(filtered[i], Year) IN
          /\ eff # NoDate
          /\ eff[1] = Year
          /\ \E tag \in Range(Ranges) : eff[2] \in MonthsOfQuarter(tag)

\* a run for the first quarter kept the week across the year boundary by its
\* week_end and dropped a row of another quarter
KeptRowsAreInSelectedQuartersWitness ==
    /\ fresh /\ Year = 2025 /\ Ranges = <<"Q1">>
    /\ \E i \in DOMAIN filtered : filtered[i].id = 1
    /\ Len(filtered) < Len(Rows)

\* the calendar day a row's period starts
StartDay(item) ==
    LET s == DateStrOf(item) IN DayNum(s[1], s[2], IF Len(s) = 3 THEN s[3] ELSE 1)

TodayDay == DayNum(todayDate[1], todayDate[2], todayDate[3])

\* C3: no row whose period starts after today is in the filtered output,
\* whatever the ranges and whether a year is selected or not.
NoFutureRowRendered ==
    /\ \A i \in DOMAIN filtered : StartDay(filtered[i]) <= TodayDay
    /\ \A i \in DOMAIN dataWithCumulative :
           StartDay(dataWithCumulative[i].item) <= TodayDay

\* a run without a selected year dropped the row that starts tomorrow and
\* kept another one
NoFutureRowRenderedWitness ==
    /\ fresh /\ Year = NoYear
    /\ \E i \in DOMAIN Rows : StartDay(Rows[i]) > TodayDay
    /\ Len(filtered) = 1
    /\ Len(dataWithCumulative) = 1

\* a row the Annual selection has to keep: not in the future, and its period
\* start in the selected year or, for a week, its period end
AnnualShouldKeep(item, year) ==
    /\ StartDay(item) <= TodayDay
    /\ \/ DateStrOf(item)[1] = year
       \/ item.week_start # NoDate /\ item.week_end # NoDate
          /\ item.week_end[1] = year

\* C4: with "Annual" selected the filter keeps exactly the non-future rows
\* whose period start, or for a week whose period end, is in the selected year.
AnnualKeepsRowsOfTheYear ==
    (fresh /\ Year # NoYear /\ "Annual" \in Range(Ranges) /\ currentData.loaded)
    => \A i \in DOMAIN Rows :
          (\E j \in DOMAIN filtered : filtered[j] = Rows[i])
          <=> AnnualShouldKeep(Rows[i], Year)

\* C5: the rows handed to the cumulative computation and to the charts are
\* in ascending lexical order of their period start.
RowsAreSortedByPeriodStart ==
    /\ \A i, j \in DOMAIN filtered :
           i < j => ~LexLess(DateStrOf(filtered[j]), DateStrOf(filtered[i]))
    /\ IdsOf(filtered) = [i \in DOMAIN dataWithCumulative |->
                             dataWithCumulative[i].item.id]

\* the snapshot came in descending order and both rows were kept
RowsAreSortedByPeriodStartWitness ==
    /\ fresh /\ Len(Rows) = 2 /\ Len(filtered) = 2
    /\ LexLess(DateStrOf(Rows[2]), DateStrOf(Rows[1]))

RECURSIVE SumOfCreated(_, _)
SumOfCreated(seq, n) ==
    IF n = 0 THEN 0 ELSE SumOfCreated(seq, n - 1) + OrZero(seq[n].created)

RECURSIVE SumOfResolved(_, _)
SumOfResolved(seq, n) ==
    IF n = 0 THEN 0 ELSE SumOfResolved(seq, n - 1) + OrZero(seq[n].resolved)

\* the rows of the snapshot that are in the filtered output
Survivors == SelectSeq(Rows, LAMBDA r : \E j \in DOMAIN filtered : filtered[j] = r)

\* C6: the totals on the stat cards are the sums of created and of resolved
\* over exactly the rows that survive the filter; the rows (4, 10) and (2, 1)
\* give 6 and 11.
TotalsAreSumsOverSurvivors ==
    /\ fresh => /\ stats.created = SumOfCreated(Survivors, Len(Survivors))
                /\ stats.resolved = SumOfResolved(Survivors, Len(Survivors))
                /\ Len(Survivors) = Len(filtered)
    /\ (fresh /\ IdsOf(filtered) = <<1, 2>>)
          => stats = [created |-> 6, resolved |-> 11]

\* the scenario: rows (4, 10) and (2, 1), year 2025, ranges Q1
TotalsAreSumsOverSurvivorsWitness ==
    /\ fresh /\ Year = 2025 /\ Ranges = <<"Q1">>
    /\ IdsOf(filtered) = <<1, 2>>
    /\ stats = [created |-> 6, resolved |-> 11]

\* C7: a row whose created or resolved field is absent counts with 0 for the
\* absent field, so every cumulative value is an integer.
AbsentFieldsCountAsZero ==
    \A i \in DOMAIN dataWithCumulative :
        LET item == dataWithCumulative[i].item
            before == CumulativeBefore(dataWithCumulative, i)
        IN (item.created = Undefined \/ item.resolved = Undefined)
           => /\ IsNum(dataWithCumulative[i].cumulative)
              /\ IsNum(before) =>
                    dataWithCumulative[i].cumulative.n
                      = before.n + OrZero(item.created) - OrZero(item.resolved)

\* C8: filtering and sorting the filtered and sorted output again, with the
\* same year, ranges and day, gives the same sequence.
FilterAndSortIsIdempotent ==
    fresh => FilterAndSort(filtered, Year, Ranges, todayDate, tzHours) = filtered

\* a run that kept two rows and reordered them
FilterAndSortIsIdempotentWitness ==
    /\ fresh /\ Len(filtered) = 2
    /\ filtered # Survivors

NoTotals == [created |-> 0, resolved |-> 0]

\* C9: a snapshot without rows gives an empty sequence and totals 0 and 0,
\* and neither the load nor a later range click shows the error panel.
EmptySnapshotGivesZeroTotals ==
    [][ /\ (\E i \in 1..MaxInFlight : LoadDataSettles(i, "data", <<>>))
           => /\ currentData' = Loaded(<<>>)
              /\ filtered' = <<>> /\ dataWithCumulative' = <<>>
              /\ stats' = NoTotals
              /\ ~view'.loading
              /\ view'.error => view.error
        /\ (currentData = Loaded(<<>>) /\ \E rg \in RangeButtons : RangeClick(rg))
           => /\ filtered' = <<>> /\ dataWithCumulative' = <<>>
              /\ stats' = NoTotals
              /\ view' = view
      ]_vars

\* an empty snapshot was loaded after rows had been shown
EmptySnapshotGivesZeroTotalsWitness ==
    /\ currentData = Loaded(<<>>) /\ serverData # <<>>
    /\ fresh /\ chartsCleared
    /\ stats = NoTotals /\ filtered = <<>>
    /\ view = [loading |-> FALSE, charts |-> TRUE, error |-> FALSE]

\* the customer part of the file name the claim's sentence describes
StrippedCustomer(customer) ==
    IF customer \in { CustAll, CustOneAlbania, CustRestOfWorld } THEN customer
    ELSE LET kept == SelectSeq(customer, LAMBDA ch : ch \in SafeChars)
         IN SubSeq(kept, 1, IF Len(kept) < 50 THEN Len(kept) ELSE 50)

SanitizedAirtel ==
    <<"S", "T", "L", "_", "-", "_", "A", "i", "r", "t", "e", "l", "_",
      "F", "i", "x", "e", "d", "l", "i", "n", "e">>

QuarterTags == { "Q1", "Q2", "Q3", "Q4" }

\* the list of ranges has an element in every state
RangesNeverEmpty == Len(Ranges) > 0

AnnualExcludesQuarters ==
    ~("Annual" \in Range(Ranges) /\ Range(Ranges) \cap QuarterTags # {})

\* the year init() falls back to: the last year of the metadata document
LatestYear(md) == IF md.years = <<>> THEN NoYear ELSE md.years[Len(md.years)]

\* C14: init() takes the filters from the query string when it has any
\* parameter, a missing key taking its default and never the persisted value;
\* from the persisted state only when the query string is empty; and from the
\* defaults only when there is neither.
InitialFiltersResolutionOrder ==
    [][\A md \in MetadataDocs, query \in FilterQueries :
          MetadataOk(md, query)
          => LET f == currentFilters'
                 saved == storage.f
             IN /\ query.present
                   => /\ f.period = (IF query.period = "" THEN "monthly"
                                     ELSE query.period)
                      /\ f.year = (IF query.year = NoYear THEN LatestYear(md)
                                   ELSE query.year)
                      /\ f.ranges = (IF query.ranges = <<>> THEN <<"Annual">>
                                     ELSE query.ranges)
                      /\ f.customer = (IF query.customer = <<>> THEN CustAll
                                       ELSE query.customer)
                /\ (~query.present /\ storage.saved)
                   => /\ f.period = (IF saved.period = "" THEN "monthly"
                                     ELSE saved.period)
                      /\ f.year = (IF saved.year = NoYear THEN LatestYear(md)
                                   ELSE saved.year)
                      /\ f.ranges = (IF saved.ranges = <<>> THEN <<"Annual">>
                                     ELSE saved.ranges)
                      /\ f.customer = (IF saved.customer = <<>> THEN CustAll
                                       ELSE saved.customer)
                /\ (~query.present /\ ~storage.saved)
                   => f = Filters("monthly", LatestYear(md), <<"Annual">>, CustAll)
      ]_vars

\* init() ran with the query string ?ranges=Q2 over a persisted state that
\* holds another period, year, range and customer
InitialFiltersResolutionOrderWitness ==
    /\ phase = "ready"
    /\ storage = Blob(TRUE, Filters("weekly", 2024, <<"Q3">>, CustOneAlbania))
    /\ currentFilters = Filters("monthly", 2025, <<"Q2">>, CustAll)

\* C15: without query string and without persisted state, init() leaves the
\* filters at period weekly, ranges Q4, customer one-albania and the last year
\* of the metadata document.
DefaultsAreWeeklyQ4OneAlbania ==
    [][\A md \in MetadataDocs :
          (MetadataOk(md, NoQuery) /\ ~storage.saved)
          => currentFilters' =
                Filters("weekly", LatestYear(md), <<"Q4">>, CustOneAlbania)
      ]_vars

\* C16: a click on the Q2 button while Q1 alone is selected leaves Q1 and Q2
\* selected, and the filter then keeps the rows of both quarters.
RangeButtonsAreMultiSelect ==
    [][(Ranges = <<"Q1">> /\ RangeClick("Q2"))
          => /\ Range(Ranges') = { "Q1", "Q2" }
             /\ filtered' = FilterAndSort(Rows, Year, <<"Q1", "Q2">>,
                                          todayDate, tzHours)
      ]_vars

\* C17: when the fetch of a snapshot file is rejected or answers a status
\* that is not successful, during init or after a period, year or customer
\* change, the view ends with the error panel shown and the loading indicator
\* and the charts container hidden, and no further fetch is issued.
LoadFailureShowsErrorState ==
    [][\A i \in 1..MaxRacing, kind \in { "rejected", "status" } :
          LoadDataSettles(i, kind, <<>>)
          => /\ view' = ShowError
             /\ lastFile' = lastFile
             /\ Len(inFlight') < Len(inFlight)
      ]_vars

StaleResponseNeverReplacesData ==
    [][\A i \in 1..MaxRacing, kind \in ResponseKinds, rows \in { serverData, <<>> } :
          (LoadDataSettles(i, kind, rows) /\ inFlight[i].file # lastFile)
          => currentData' = currentData
      ]_vars

\* C20: no snapshot file is asked for before the metadata document arrived;
\* when the metadata fetch fails the view is in the error state and no
\* snapshot file is asked for at all.
NoSnapshotFetchBeforeMetadata ==
    /\ phase \in { "boot", "metadata", "failed" }
       => (lastFile = NoFile /\ inFlight = <<>> /\ settled = "none")
    /\ phase = "failed" => view = ShowError

\* the metadata fetch failed
NoSnapshotFetchBeforeMetadataWitness ==
    /\ phase = "failed" /\ metadata = NoMetadata
    /\ view = ShowError /\ lastFile = NoFile /\ inFlight = <<>>

\* C21: with a localStorage whose every call throws, init() ends with the
\* filters of the query string or the defaults and starts its load, every
\* period or year click updates currentFilters and starts its load, every
\* range click updates currentFilters and renders again, and the storage is
\* left as it was.
StorageFailureIsNoOp ==
    [][storage.throws
       => /\ storage' = storage
          /\ \A md \in MetadataDocs, query \in FilterQueries :
                MetadataOk(md, query)
                => /\ currentFilters' =
                         Filters(IF query.period = "" THEN "monthly" ELSE query.period,
                                 IF query.year = NoYear THEN LatestYear(md)
                                 ELSE query.year,
                                 IF query.ranges = <<>> THEN <<"Annual">>
                                 ELSE query.ranges,
                                 IF query.customer = <<>> THEN CustAll
                                 ELSE query.customer)
                   /\ Len(inFlight') = Len(inFlight) + 1
          /\ \A p \in Periods :
                PeriodClick(p)
                => /\ currentFilters' = [currentFilters EXCEPT !.period = p]
                   /\ Len(inFlight') = Len(inFlight) + 1
                   /\ lastFile'.period = p
          /\ \A y \in { 2024, 2025 } :
                YearClick(y)
                => /\ currentFilters' = [currentFilters EXCEPT !.year = y]
                   /\ Len(inFlight') = Len(inFlight) + 1
                   /\ lastFile'.year = y
          /\ \A rg \in RangeButtons :
                RangeClick(rg)
                => /\ currentFilters' = [currentFilters EXCEPT !.ranges = <<rg>>]
                   /\ fresh'
      ]_vars

\* with a throwing localStorage the session reached weekly, 2024, Q3 and
\* showed the rows of that selection
StorageFailureIsNoOpWitness ==
    /\ storage = ThrowingStorage
    /\ currentFilters.period = "weekly" /\ currentFilters.year = 2024
    /\ currentFilters.ranges = <<"Q3">>
    /\ lastFile.period = "weekly" /\ lastFile.year = 2024
    /\ fresh /\ currentData.loaded /\ inFlight = <<>>

\* a filter state the dashboard can write into a URL
ValidFilters(f) ==
    /\ f.period \in Periods
    /\ f.year >= 0
    /\ f.ranges # <<>> /\ \A i \in DOMAIN f.ranges : f.ranges[i] \in RangeButtons
    /\ f.customer # <<>>

\* C22: for every valid filter state, getUrlParams applied to the query
\* string buildUrl writes for it gives that filter state back, whatever the
\* persisted state is.
UrlRoundTrip ==
    ValidFilters(currentFilters)
    => GetUrlParams(QueryOfSearch(BuildUrl(currentFilters)), storage)
         = currentFilters

\* a session whose customer name holds a blank and an ampersand, and one whose
\* ranges are two quarters
UrlRoundTripWitness ==
    /\ phase = "ready" /\ ValidFilters(currentFilters)
    /\ \/ currentFilters.customer = <<"&", " ">>
       \/ currentFilters.customer = CustAirtel /\ currentFilters.year = 2025
    /\ storage.saved /\ storage.f # currentFilters
    /\ Len(BuildUrl(currentFilters)) > 40

\* C23: after every filter change, once the deferred render has run, both
\* charts display exactly the filtered and aggregated series of the current
\* selection, the empty series included, never an earlier one.
ChartsShowCurrentSeries ==
    (phase = "ready" /\ fresh /\ Quiet) => shown = dataWithCumulative

\* the link the claim names for a click: created or resolved of the record at
\* the index of the series on display
LinkOfPoint(params) ==
    LET links == jiraLinks[shown[params.dataIndex + 1].item.id] IN
    IF params.seriesName = "Created" THEN links.created ELSE links.resolved

\* the click has nothing to open
NothingToOpen(params) ==
    \/ params.dataIndex = -1
    \/ params.dataIndex >= Len(shown)
    \/ LinkOfPoint(params) = NoLink
    \/ LinkOfPoint(params).jql = "NONE"

Probing(k) == \E i \in DOMAIN probes : probes[i].id = k

\* the link of the call with the number k
ProbedLink(k) == probes[CHOOSE i \in DOMAIN probes : probes[i].id = k].link

\* the step opens the link and leaves the modal alone, or shows the modal
\* with the link pending and opens nothing
EndsOpenOrAsk(link) ==
    \/ /\ opened' = Append(opened, link)
       /\ UNCHANGED <<pendingJiraLink, modalShown>>
    \/ /\ opened' = opened
       /\ pendingJiraLink' = link /\ modalShown'

HasVerdict ==
    /\ loginCache.status # "" /\ loginCache.time # <<>>
    /\ \A i \in DOMAIN loginCache.time : loginCache.time[i] \in Range(Digits)

\* C26: with a cached verdict less than five minutes old no probe is made and
\* the call acts on the verdict (true opens the link, anything else shows the
\* modal); with a verdict five minutes old or more, or none, a probe is made,
\* and its result is cached with the time of its arrival.
VerdictCachedFiveMinutes ==
    [][/\ \A params \in ClickParams :
            ChartClickWithLoginCheck(params) /\ ~skipLoginPrompt
            => IF HasVerdict /\ now - ParseInt(loginCache.time) < 5
               THEN /\ probes' = probes
                    /\ loginCache' = loginCache
                    /\ IF loginCache.status = "true"
                       THEN opened' = Append(opened, ClickedLink(shown, params))
                       ELSE /\ opened' = opened /\ modalShown'
                            /\ pendingJiraLink' = ClickedLink(shown, params)
               ELSE /\ Len(probes') = Len(probes) + 1
                    /\ probes'[Len(probes')].link = ClickedLink(shown, params)
                    /\ UNCHANGED <<opened, modalShown, pendingJiraLink>>
       /\ \A k \in 1..MaxChecks, outcome \in ProbeOutcomes :
            ProbeSettles(k, outcome)
            => /\ loginCache'.status = (IF outcome = "ok" THEN "true" ELSE "false")
               /\ ParseInt(loginCache'.time) = now]_vars

\* the only call found the verdict of minute 1 at minute 6 and probes
VerdictCachedFiveMinutesWitness ==
    /\ checks = 1 /\ Len(probes) = 1
    /\ loginCache = LoginCache("true", <<"1">>) /\ now = 6
    /\ opened = <<>> /\ ~modalShown /\ loginTimers = 0

\* C30: pendingJiraLink is non-null only while the login modal is shown;
\* Proceed opens exactly the pending link, once, hides the modal and clears the
\* pending link; closing the modal clears the pending link and opens nothing;
\* Proceed without a pending link opens nothing.
PendingLinkOnlyWhileModalShown ==
    /\ [](pendingJiraLink # NoLink => modalShown)
    /\ [][/\ ProceedToJira
             => IF pendingJiraLink # NoLink
                THEN /\ opened' = Append(opened, pendingJiraLink)
                     /\ ~modalShown' /\ pendingJiraLink' = NoLink
                ELSE opened' = opened
          /\ CloseModal
             => /\ opened' = opened
                /\ ~modalShown' /\ pendingJiraLink' = NoLink]_vars

\* the only call ended in the modal, the user ticked the checkbox and chose
\* Proceed
PendingLinkOnlyWhileModalShownWitness ==
    /\ checks = 1 /\ probes = <<>> /\ skipLoginPrompt
    /\ Len(opened) = 1
    /\ ~modalShown /\ pendingJiraLink = NoLink
    /\ loginCache.status = "true"

\* the answer came from the cache and its sw-cached-time is at least
\* CACHE_DURATION before the answer
AnsweredStale ==
    /\ swAnswer.from = "cache" /\ swAnswer.time # <<>>
    /\ swAnswer.at - ParseInt(swAnswer.time) >= 5

\* C27 as stated: the service worker never answers with a cached response
\* whose age (now - sw-cached-time) is five minutes or more.
WorkerNeverAnswersStale == ~AnsweredStale

\* C27: the service worker answers with a cached response whose age is five
\* minutes or more only after its network fetch was rejected.
WorkerAnswersStaleOnlyAfterFailure == AnsweredStale => swAnswer.failed

\* the response of minute 1 was the answer at minute 6, the network failing
WorkerAnswersStaleOnlyAfterFailureWitness ==
    /\ AnsweredStale /\ swAnswer.failed
    /\ swAnswer.time = <<"1">> /\ swAnswer.at = 6 /\ swFetches = <<>>

\* C28: at most one of the loading indicator, the charts container and the
\* error panel is visible; in particular the error panel and the charts
\* container are never both visible.
AtMostOnePanelVisible ==
    /\ Cardinality({ k \in { "loading", "charts", "error" } : view[k] }) <= 1
    /\ ~(view.error /\ view.charts)

\* C29 as stated: each click on a team year or range button runs its handler
\* exactly once and issues exactly one fetch, however many times the tab was
\* activated.
TeamClickRunsOnce ==
    teamClick # NoTeamClick => teamClick.runs = 1 /\ teamClick.fetches = 1

\* C29: once the tab was activated with the metadata loaded, each click on a
\* team button runs the handler exactly once, however many times the tab was
\* activated, and the handler issues one fetch when a year is set and none
\* otherwise; before that the buttons have no listener and a click runs
\* nothing.
TeamClickRunsOnceOnceInitialised ==
    teamClick # NoTeamClick
    => IF teamClick.listeners > 0
       THEN /\ teamClick.runs = 1
            /\ teamClick.fetches = (IF teamClick.year # NoYear THEN 1 ELSE 0)
       ELSE teamClick.runs = 0 /\ teamClick.fetches = 0

\* a click after the second activation
TeamClickRunsOnceOnceInitialisedWitness ==
    /\ teamClick.listeners = 2 /\ teamClick.runs = 1 /\ teamClick.fetches = 1
    /\ teamFilters = TeamFilters(2024, "Q2")

====
